---- MODULE Spec2Model ----
(***************************************************************************)
(* State-machine model of startCommonLanguageServer                        *)
(* (packages/language-server/src/common/server.ts): the initialize,        *)
(* initialized, didChangeWorkspaceFolders and shutdown handlers, the       *)
(* closure variables they share, and the pure helpers they call.           *)
(*                                                                         *)
(* Every `await` of an async handler is a suspension point: the code       *)
(* between two awaits is one atomic action, and other handlers may run     *)
(* while a handler is suspended.                                           *)
(*                                                                         *)
(* createWorkspaces (./workspaces) is not part of the sources at hand; the *)
(* registry it returns is modelled from its documented contract            *)
(* (add / remove / workspaces), see the Registry section.                  *)
(***************************************************************************)
EXTENDS Integers, Sequences, FiniteSets, TLC

VARIABLES
    ctxPlugins,         \* context.plugins: the plugin factories of the process
    initParams,         \* let initParams
    options,            \* let options
    roots,              \* let roots
    fsHost,             \* let fsHost
    projects,           \* let projects: 0 = undefined, else the registry's id
    configurationHost,  \* let configurationHost
    plugins,            \* let plugins: 0 = unassigned, else handshake that built them
    standardLegend,     \* content of the module-level standardSemanticTokensLegend object
    maps,               \* registry id -> its `workspaces` map (insertion ordered)
    hostCalls,          \* host id -> number of dispose() calls received
    hostReleased,       \* host id -> number of times its engine handle was released
    nextHost,           \* next fresh host id
    hostDocs,           \* host id -> its open documents (uri -> version, text)
    hostEngines,        \* host id -> number of analysis engines it has constructed
    requests,           \* the getLanguageService calls: slot -> position and result
    docLog,             \* document updates delivered so far, in order
    docErrors,          \* version-ordering errors reported so far
    tokens,             \* cancellation tokens created so far: token id -> its state
    cancelLog,          \* cancels delivered so far: token, whether its request was done
    cancelErrors,       \* errors raised by cancel notifications so far
    initPc,             \* position of the in-flight initialize handler
    initCount,          \* initialize requests received so far
    initReplies,        \* replies to the initialize requests, in order
    capLegend,          \* legend handed to setupCapabilities (line 57)
    featLegend,         \* legend handed to languageFeatures.register (line 150)
    hookLog,            \* lifecycle hook calls of the latest handshake, in order
    seeded,             \* registries whose initial roots have all been added
    initAdds,           \* roots the latest handshake has passed to add(), in order
    initializedSeen,    \* whether the `initialized` notification was received
    listeners,          \* registered onDidChangeWorkspaceFolders listeners
    registrations,      \* client.register calls (glob patterns), in order
    lastBoth,           \* folders the last notification handled both added and removed
    shutdownPc,         \* position of the shutdown handler
    shutIter,           \* the shutdown loop's map iterator
    liveAtShutdown,     \* hosts live in the registry when shutdown was received
    pureIn,             \* input of the pure-function specifications
    pureOut             \* output of the pure-function specifications

serverVars == <<initParams, options, roots, fsHost, projects, configurationHost, plugins>>
worldVars == <<maps, hostCalls, hostReleased, nextHost, hostDocs>>
docVars == <<docLog, docErrors>>
cancelVars == <<tokens, cancelLog, cancelErrors>>
extVars == <<hostEngines, requests, docVars, cancelVars>>
initVars ==
    <<initPc, initCount, initReplies, capLegend, featLegend, hookLog, seeded, initAdds>>
notifVars == <<initializedSeen, listeners, registrations, lastBoth>>
shutVars == <<shutdownPc, shutIter, liveAtShutdown>>
pureVars == <<pureIn, pureOut>>
moduleVars == <<standardLegend>>
vars ==
    <<ctxPlugins, moduleVars, serverVars, worldVars, extVars, initVars, notifVars, shutVars,
      pureVars>>

(***************************************************************************)
(* Bounds                                                                  *)
(***************************************************************************)
MaxInits == 2       \* initialize requests per session
MaxHosts == 2       \* Project Hosts created per session
MaxExtra == 2       \* additional legend entries / extensions per plugin
MaxPlugins == 2     \* plugins of context.plugins (pure-function specifications)
MaxRequests == 2    \* getLanguageService calls per session
MaxVersion == 3     \* highest version a document update carries
MaxUpdates == 2     \* document updates delivered per session
MaxTokens == 2      \* tooling requests (and their tokens) per session
MaxCancels == 2     \* cancel notifications delivered per session
MaxItems == 2       \* items of a raw list result

Roots == {"file:///a", "file:///b"}
KeyA == "file:///a"
KeyB == "file:///b"

\* Sequences over S of length at most n.
RECURSIVE SeqsUpTo(_, _)
SeqsUpTo(S, n) ==
    IF n = 0 THEN {<<>>}
    ELSE LET shorter == SeqsUpTo(S, n - 1)
         IN shorter \cup {Append(s, x) : s \in {t \in shorter : Len(t) = n - 1}, x \in S}

Range(s) == {s[i] : i \in 1..Len(s)}

(***************************************************************************)
(* URI.parse / URI.file / URI.toString (vscode-uri), over the locations    *)
(* the model uses: parse splits a URI string into scheme and path, file    *)
(* builds a file URI from a path, toString joins them again.               *)
(***************************************************************************)
PathOf == [s \in Roots |-> IF s = "file:///a" THEN "/a" ELSE "/b"]
Paths == {PathOf[s] : s \in Roots}
URIParse(s) == [scheme |-> "file", path |-> PathOf[s]]
URIFile(p) == [scheme |-> "file", path |-> p]
URIToString(u) == u.scheme \o "://" \o u.path
KeyOfRoot(r) == URIToString(URIParse(r))

(***************************************************************************)
(* Registry: the object createWorkspaces returns.  `workspaces` is an      *)
(* insertion-ordered map root -> Project Host that server.ts iterates with *)
(* for...of.  The map is the sequence of its entries in insertion order;   *)
(* host ids are handed out in increasing order, so an entry's host id is   *)
(* also its insertion stamp, and a running iterator is the stamp of the    *)
(* entry it visited last: it skips an entry deleted before it gets there   *)
(* and visits an entry added behind it, as a Map iterator does.            *)
(* A world W = [maps, calls, released, next, log] threads the registry     *)
(* maps and the hosts through the synchronous loops of a handler; log is   *)
(* the sequence of add / remove calls the handler has made so far.         *)
(***************************************************************************)
MapHas(m, k) == \E i \in 1..Len(m) : m[i].key = k
MapGet(m, k) == m[CHOOSE i \in 1..Len(m) : m[i].key = k].host
MapSet(m, k, h) == Append(m, [key |-> k, host |-> h])
MapDelete(m, k) == SelectSeq(m, LAMBDA e : e.key # k)
MapValues(m) == {m[i].host : i \in 1..Len(m)}

\* Project Host dispose(): releases the engine handle and clears the open
\* documents; a second call is a no-op.
HostDispose(W, h) ==
    [W EXCEPT !.calls[h] = @ + 1,
              !.released[h] = IF W.calls[h] = 0 THEN @ + 1 ELSE @,
              !.docs = [x \in DOMAIN @ |-> IF x = h THEN <<>> ELSE @[x]]]

\* add(root): idempotent; registers the root with a fresh Project Host.
RegistryAdd(W, g, rootUri) ==
    LET k == URIToString(rootUri)
        W1 == [W EXCEPT !.log = Append(@, [op |-> "add", key |-> k])]
    IN IF MapHas(W.maps[g], k) THEN W1
       ELSE [W1 EXCEPT !.maps[g] = MapSet(@, k, W.next),
                       !.calls = @ @@ (W.next :> 0),
                       !.released = @ @@ (W.next :> 0),
                       !.next = @ + 1]

\* remove(root): idempotent; the root's host is disposed before remove returns.
RegistryRemove(W, g, rootUri) ==
    LET k == URIToString(rootUri)
        W1 == [W EXCEPT !.log = Append(@, [op |-> "remove", key |-> k])]
    IN IF ~MapHas(W.maps[g], k) THEN W1
       ELSE LET h == MapGet(W.maps[g], k)
            IN HostDispose([W1 EXCEPT !.maps[g] = MapDelete(@, k)], h)

\* createWorkspaces(...): a registry with no roots.
CreateWorkspaces(W, g) == [W EXCEPT !.maps = @ @@ (g :> <<>>)]

World ==
    [maps |-> maps, calls |-> hostCalls, released |-> hostReleased, next |-> nextHost,
     docs |-> hostDocs, log |-> <<>>]
SetWorld(W) ==
    /\ maps' = W.maps
    /\ hostCalls' = W.calls
    /\ hostReleased' = W.released
    /\ nextHost' = W.next
    /\ hostDocs' = W.docs

(***************************************************************************)
(* Pure helpers of server.ts                                               *)
(***************************************************************************)
standardSemanticTokensLegend ==
    [tokenTypes |-> <<"namespace", "class", "enum", "interface", "struct",
                      "typeParameter", "type", "parameter", "variable", "property",
                      "enumMember", "decorator", "event", "function", "method",
                      "macro", "label", "comment", "string", "keyword", "number",
                      "regexp", "operator">>,
     tokenModifiers |-> <<"declaration", "definition", "readonly", "static",
                          "deprecated", "abstract", "async", "modification",
                          "documentation", "defaultLibrary">>]

NoLegend == [isNull |-> TRUE, tokenTypes |-> <<>>, tokenModifiers |-> <<>>]
SomeLegend(t, m) == [isNull |-> FALSE, tokenTypes |-> t, tokenModifiers |-> m]

\* Mutant: the additional entries are merged without duplicates.
getSemanticTokensLegendDedup(opt) ==
    LET std == standardSemanticTokensLegend
        extra == opt.semanticTokensLegend
    IN IF extra.isNull THEN std
       ELSE [tokenTypes |-> std.tokenTypes
                 \o SelectSeq(extra.tokenTypes, LAMBDA t : t \notin Range(std.tokenTypes)),
             tokenModifiers |-> std.tokenModifiers
                 \o SelectSeq(extra.tokenModifiers,
                              LAMBDA t : t \notin Range(std.tokenModifiers))]

\* getSemanticTokensLegend(), reading options.semanticTokensLegend and the
\* module-level standardSemanticTokensLegend object.
getSemanticTokensLegend(opt) ==
    IF opt.semanticTokensLegend.isNull THEN standardLegend
    ELSE [tokenTypes |-> standardLegend.tokenTypes
                            \o opt.semanticTokensLegend.tokenTypes,
          tokenModifiers |-> standardLegend.tokenModifiers
                            \o opt.semanticTokensLegend.tokenModifiers]

\* Mutant: the additional entries are pushed onto the standard lists.
LegendSideEffectPush(std, opt) ==
    IF opt.semanticTokensLegend.isNull THEN std
    ELSE [tokenTypes |-> std.tokenTypes \o opt.semanticTokensLegend.tokenTypes,
          tokenModifiers |-> std.tokenModifiers \o opt.semanticTokensLegend.tokenModifiers]

\* What a call of getSemanticTokensLegend() leaves in the standard object std:
\* the spreads copy its lists into fresh arrays and nothing is assigned to it.
LegendSideEffect(std, opt) == std

MapSeq(s, F(_)) == [i \in 1..Len(s) |-> F(s[i])]

\* The roots selection of onInitialize: workspace folders, else rootUri, else
\* rootPath, else `roots` keeps its value.
SelectRoots(p, old) ==
    IF p.wsCap /\ ~p.workspaceFolders.isNull
    THEN MapSeq(p.workspaceFolders.uris, URIParse)
    ELSE IF p.rootUri # "" THEN <<URIParse(p.rootUri)>>
    ELSE IF p.rootPath # "" THEN <<URIFile(p.rootPath)>>
    ELSE old

\* Mutant: an extension already collected is not collected again.
RECURSIVE FileWatcherExtsDedup(_)
FileWatcherExtsDedup(ps) ==
    IF ps = <<>> THEN <<>>
    ELSE LET rest == FileWatcherExtsDedup(SubSeq(ps, 1, Len(ps) - 1))
             mine == IF ps[Len(ps)].fileWatcher.isNull THEN <<>>
                     ELSE ps[Len(ps)].fileWatcher.exts
         IN rest \o SelectSeq(mine, LAMBDA x : x \notin Range(rest))

\* plugins.map(plugin => plugin.extensions.fileWatcher ?? []).flat()
RECURSIVE FileWatcherExts(_)
FileWatcherExts(ps) ==
    IF ps = <<>> THEN <<>>
    ELSE (IF Head(ps).fileWatcher.isNull THEN <<>> ELSE Head(ps).fileWatcher.exts)
         \o FileWatcherExts(Tail(ps))

\* exts.join(','), as the sequence of its pieces.
RECURSIVE Join(_)
Join(exts) ==
    IF Len(exts) <= 1 THEN exts
    ELSE <<Head(exts), ",">> \o Join(Tail(exts))

\* `**/*.{${exts.join(',')}}`, as the sequence of its pieces.
GlobPattern(exts) == <<"**/*.{">> \o Join(exts) \o <<"}">>

\* Mutant: the glob is registered without the exts.length test.
WatcherRegistrationUnchecked(p, opt, ps) ==
    IF ~opt.syntactic /\ ~opt.disableFileWatcher /\ p.dynReg
    THEN <<GlobPattern(FileWatcherExts(ps))>>
    ELSE <<>>

\* The file-watcher registration of onInitialized: the patterns it registers.
WatcherRegistration(p, opt, ps) ==
    IF ~opt.syntactic /\ ~opt.disableFileWatcher /\ p.dynReg
    THEN LET exts == FileWatcherExts(ps)
         IN IF Len(exts) > 0 THEN <<GlobPattern(exts)>> ELSE <<>>
    ELSE <<>>

(***************************************************************************)
(* Client inputs.  `defined` tells a value from undefined; an absent       *)
(* string is "".                                                           *)
(***************************************************************************)
Undefined == [defined |-> FALSE]
NullFolders == [isNull |-> TRUE, uris |-> <<>>]
Folders(us) == [isNull |-> FALSE, uris |-> us]
NoExts == [isNull |-> TRUE, exts |-> <<>>]
Exts(es) == [isNull |-> FALSE, exts |-> es]

BaseOptions ==
    [defined |-> TRUE, l10n |-> FALSE, typescript |-> FALSE, syntactic |-> FALSE,
     disableFileWatcher |-> FALSE, semanticTokensLegend |-> NoLegend]
BaseParams ==
    [defined |-> TRUE, wsCap |-> TRUE, cfgCap |-> FALSE, dynReg |-> TRUE,
     workspaceFolders |-> Folders(<<"file:///a">>), rootUri |-> "", rootPath |-> "",
     locale |-> FALSE, initializationOptions |-> BaseOptions]

\* The initialize requests of the lifecycle specification.
MainParams ==
    { BaseParams,
      [BaseParams EXCEPT !.workspaceFolders = Folders(<<"file:///a", "file:///b">>),
                         !.locale = TRUE, !.cfgCap = TRUE,
                         !.initializationOptions =
                             [BaseOptions EXCEPT !.l10n = TRUE, !.typescript = TRUE,
                                  !.semanticTokensLegend = SomeLegend(<<"foo">>, <<>>)]],
      [BaseParams EXCEPT !.wsCap = FALSE, !.workspaceFolders = NullFolders,
                         !.rootUri = "file:///b", !.dynReg = FALSE],
      [BaseParams EXCEPT !.initializationOptions = Undefined] }

\* The initialize requests of the root-selection specification: every
\* combination of the three sources of roots.
RootParams ==
    { [BaseParams EXCEPT !.wsCap = w, !.workspaceFolders = f, !.rootUri = u, !.rootPath = q] :
          w \in BOOLEAN,
          f \in {NullFolders, Folders(<<>>), Folders(<<"file:///b", "file:///a">>)},
          u \in {"", "file:///b"},
          q \in {"", "/a"} }

\* The plugin lists (context.plugins) of the lifecycle specification.
Plugin(fw, h1, h2) == [fileWatcher |-> fw, onInitialize |-> h1, onInitialized |-> h2]
MainPlugins ==
    { <<Plugin(Exts(<<"vue">>), TRUE, TRUE), Plugin(Exts(<<"vue", "ts">>), FALSE, TRUE)>> }

\* A fault of the step a handler is about to run:
\*   "ok" none; "reject" the awaited promise rejects; "throw" a call of the step
\*   throws; "hook" the lifecycle hook of plugin `at` throws.
Fault(k, i) == [kind |-> k, at |-> i]
NoFault == Fault("ok", 0)
HookFaults(ps) == {Fault("hook", i) : i \in 1..Len(ps)}

(***************************************************************************)
(* onInitialize (lines 29-74) and createLanguageServiceHost (119-162).     *)
(* S is the state the handler reads and writes; each Seg runs the code     *)
(* from one await to the next and falls through an await that is skipped.  *)
(***************************************************************************)
HasHook(pl, hook) == IF hook = "onInitialize" THEN pl.onInitialize ELSE pl.onInitialized

\* for (const plugin of plugins) plugin.<hook>?.(...), the loop ending after
\* plugin `upto`.
HookCalls(n, ps, hook, upto) ==
    LET idx == SelectSeq([i \in 1..upto |-> i], LAMBDA i : HasHook(ps[i], hook))
    IN [j \in 1..Len(idx) |-> [n |-> n, plugin |-> idx[j], hook |-> hook]]

\* Whether fault c can strike the hook loop, and where the loop then ends.
HookThrows(ps, hook, c) == c.kind = "hook" /\ c.at <= Len(ps) /\ HasHook(ps[c.at], hook)
HookUpto(ps, hook, c) == IF HookThrows(ps, hook, c) THEN c.at ELSE Len(ps)

Fail(S) == [S EXCEPT !.pc = "idle", !.replies = Append(@, "error")]

\* lines 60-73: serverInfo, plugin.onInitialize hooks, return result
Seg6(S, c) ==
    LET ps == S.plugins.list
        S1 == [S EXCEPT !.hookLog =
                   @ \o HookCalls(S.n, ps, "onInitialize", HookUpto(ps, "onInitialize", c))]
    IN IF HookThrows(ps, "onInitialize", c) THEN Fail(S1)
       ELSE [S1 EXCEPT !.pc = "idle", !.replies = Append(@, "result")]

\* lines 145-156: languageFeatures.register, plugin.onInitialized hooks
Seg5(S, c) ==
    LET ps == S.plugins.list
        S1 == [S EXCEPT !.featLegend = getSemanticTokensLegend(S.opt),
                        !.std = LegendSideEffect(S.std, S.opt),
                        !.hookLog = @ \o HookCalls(S.n, ps, "onInitialized",
                                                   HookUpto(ps, "onInitialized", c))]
    IN IF HookThrows(ps, "onInitialized", c) THEN Fail(S1)
       ELSE [S1 EXCEPT !.pc = "resume"]

\* line 144: customFeatures.register(connection, projects)
Seg4(S) == [S EXCEPT !.pc = "import2"]

\* for (const root of roots) projects.add(root)
RECURSIVE AddRoots(_, _, _)
AddRoots(W, g, rs) ==
    IF rs = <<>> THEN W ELSE AddRoots(RegistryAdd(W, g, Head(rs)), g, Tail(rs))

\* Mutant: `projects` is assigned but the loop over `roots` is left out.
Seg3NoRoots(S) ==
    [S EXCEPT !.projects = S.n,
              !.W = CreateWorkspaces(S.W, S.n),
              !.pc = "import1"]

\* lines 125-142: cancelTokenHost, createWorkspaces, projects = _projects, add roots
Seg3(S) ==
    LET W1 == CreateWorkspaces(S.W, S.n)
        W2 == AddRoots(W1, S.n, S.roots)
    IN [S EXCEPT !.projects = S.n,
                 !.W = W2,
                 !.seeded = @ \cup {S.n},
                 !.initAdds = [i \in 1..Len(W2.log) |-> W2.log[i].key],
                 !.pc = "import1"]

\* Mutant: the plugin.onInitialize loop runs before createLanguageServiceHost.
Seg2HooksFirst(S, c) ==
    LET S1 == [S EXCEPT !.roots = SelectRoots(S.ip, S.roots),
                        !.cfgHost = S.ip.cfgCap,
                        !.capLegend = getSemanticTokensLegend(S.opt),
                        !.std = LegendSideEffect(S.std, S.opt),
                        !.hookLog = @ \o HookCalls(S.n, S.plugins.list, "onInitialize",
                                                   Len(S.plugins.list))]
        S2 == [S1 EXCEPT !.fsHost = S.opt.typescript]
    IN IF S.opt.typescript /\ c.kind = "throw" THEN Fail(S1)
       ELSE IF S.opt.typescript /\ S.ip.locale THEN [S2 EXCEPT !.pc = "tsLocalized"]
       ELSE Seg3(S2)

\* lines 39-57 and 121-124: roots, configurationHost, setupCapabilities, ts, fsHost
Seg2(S, c) ==
    LET S1 == [S EXCEPT !.roots = SelectRoots(S.ip, S.roots),
                        !.cfgHost = S.ip.cfgCap,
                        !.capLegend = getSemanticTokensLegend(S.opt),
                        !.std = LegendSideEffect(S.std, S.opt)]
        S2 == [S1 EXCEPT !.fsHost = S.opt.typescript]
    IN IF S.opt.typescript /\ c.kind = "throw" THEN Fail(S1)   \* loadTypescript throws
       ELSE IF S.opt.typescript /\ S.ip.locale THEN [S2 EXCEPT !.pc = "tsLocalized"]
       ELSE Seg3(S2)

\* lines 31-37: initParams, options, plugins, l10n
Seg1(S, p, c) ==
    LET S1 == [S EXCEPT !.ip = p, !.opt = p.initializationOptions,
                        !.n = S.n + 1, !.hookLog = <<>>, !.initAdds = <<>>]
        S2 == [S1 EXCEPT !.plugins = [defined |-> TRUE, list |-> S.ctx]]
    IN IF ~S1.opt.defined
       THEN IF c.kind = "throw" THEN Fail(S1)   \* a plugin factory throws on undefined
            ELSE Fail(S2)                       \* options.l10n throws
       ELSE IF S1.opt.l10n THEN [S2 EXCEPT !.pc = "l10n"]
       ELSE Seg2(S2, c)

Handshake ==
    [ip |-> initParams, opt |-> options, roots |-> roots, fsHost |-> fsHost,
     projects |-> projects, cfgHost |-> configurationHost, plugins |-> plugins,
     W |-> World, capLegend |-> capLegend, featLegend |-> featLegend,
     hookLog |-> hookLog, seeded |-> seeded, initAdds |-> initAdds, pc |-> initPc, replies |-> initReplies, n |-> initCount,
     ctx |-> ctxPlugins, std |-> standardLegend]

SetHandshake(S) ==
    /\ S.W.next <= MaxHosts + 1
    /\ initParams' = S.ip
    /\ options' = S.opt
    /\ roots' = S.roots
    /\ fsHost' = S.fsHost
    /\ projects' = S.projects
    /\ configurationHost' = S.cfgHost
    /\ plugins' = S.plugins
    /\ standardLegend' = S.std
    /\ SetWorld(S.W)
    /\ capLegend' = S.capLegend
    /\ featLegend' = S.featLegend
    /\ hookLog' = S.hookLog
    /\ seeded' = S.seeded
    /\ initAdds' = S.initAdds
    /\ initPc' = S.pc
    /\ initReplies' = S.replies
    /\ initCount' = S.n
    /\ UNCHANGED <<ctxPlugins, extVars, notifVars, shutVars, pureVars>>

\* An initialize request arrives and its handler runs to its first await (a
\* client sends none while one is in flight or after it asked for shutdown).
InitializeFrom(P) ==
    /\ initPc = "idle"
    /\ shutdownPc = "idle"
    /\ initCount < MaxInits
    /\ \E p \in P, c \in {NoFault, Fault("throw", 0)} :
          SetHandshake(Seg1(Handshake, p, c))

Initialize == InitializeFrom(MainParams)

\* await l10n.config(...) settles (line 36).
InitializeL10n ==
    /\ initPc = "l10n"
    /\ \E c \in {NoFault, Fault("reject", 0), Fault("throw", 0)} :
          SetHandshake(IF c.kind = "reject" THEN Fail(Handshake) ELSE Seg2(Handshake, c))

\* await loadTypescriptLocalized(...) settles (line 124).
InitializeTsLocalized ==
    /\ initPc = "tsLocalized"
    /\ \E c \in {NoFault, Fault("reject", 0)} :
          SetHandshake(IF c.kind = "reject" THEN Fail(Handshake) ELSE Seg3(Handshake))

\* await import('./features/customFeatures') settles (line 144).
InitializeImport1 ==
    /\ initPc = "import1"
    /\ SetHandshake(Seg4(Handshake))

\* await import('./features/languageFeatures') settles (line 145).
InitializeImport2 ==
    /\ initPc = "import2"
    /\ \E c \in {NoFault} \cup HookFaults(plugins.list) : SetHandshake(Seg5(Handshake, c))

\* await createLanguageServiceHost() settles (line 58).
InitializeReturn ==
    /\ initPc = "resume"
    /\ \E c \in {NoFault} \cup HookFaults(plugins.list) : SetHandshake(Seg6(Handshake, c))

(***************************************************************************)
(* onInitialized (lines 75-109)                                            *)
(***************************************************************************)
\* The `initialized` notification arrives (a client sends it once per session,
\* and not after it asked for shutdown).  initParams.capabilities throws when
\* no initialize request was seen (line 80); options.serverMode throws when the
\* initialization options were missing (line 94).
Initialized ==
    /\ ~initializedSeen
    /\ shutdownPc = "idle"
    /\ initializedSeen' = TRUE
    /\ IF ~initParams.defined
       THEN UNCHANGED <<listeners, registrations>>
       ELSE /\ listeners' = IF initParams.wsCap THEN listeners + 1 ELSE listeners
            /\ registrations' =
                   IF ~options.defined THEN registrations
                   ELSE registrations \o WatcherRegistration(initParams, options, plugins.list)
    /\ UNCHANGED <<ctxPlugins, moduleVars, serverVars, worldVars, extVars, initVars,
                   lastBoth, shutVars, pureVars>>

(***************************************************************************)
(* onDidChangeWorkspaceFolders listener (lines 81-90)                      *)
(***************************************************************************)
\* The folder lists a notification carries: none, or one folder.
FolderLists == {<<>>} \cup {<<r>> : r \in Roots}
Events == [added : FolderLists, removed : FolderLists]

\* The notifications of the folder specification: lists of up to two folders.
WideFolderLists ==
    FolderLists \cup ({<<r, q>> : r, q \in Roots} \ {<<r, r>> : r \in Roots})
WideEvents == [added : WideFolderLists, removed : WideFolderLists]

\* Mutant: a removed folder makes the listener remove every registered root.
RECURSIVE RemoveFoldersAll(_, _, _)
RemoveFoldersAll(W, g, fs) ==
    IF fs = <<>> \/ W.maps[g] = <<>> THEN W
    ELSE RemoveFoldersAll(RegistryRemove(W, g, URIParse(CHOOSE r \in Roots :
                              KeyOfRoot(r) = W.maps[g][1].key)), g, fs)

\* for (const folder of e.removed) projects?.remove(URI.parse(folder.uri))
RECURSIVE RemoveFolders(_, _, _)
RemoveFolders(W, g, fs) ==
    IF fs = <<>> THEN W
    ELSE RemoveFolders(RegistryRemove(W, g, URIParse(Head(fs))), g, Tail(fs))

\* Mutant: the added folders are handled from the last to the first.
RECURSIVE AddFoldersReversed(_, _, _)
AddFoldersReversed(W, g, fs) ==
    IF fs = <<>> THEN W
    ELSE AddFoldersReversed(RegistryAdd(W, g, URIParse(fs[Len(fs)])), g,
                            SubSeq(fs, 1, Len(fs) - 1))

\* for (const folder of e.added) projects?.add(URI.parse(folder.uri))
RECURSIVE AddFolders(_, _, _)
AddFolders(W, g, fs) ==
    IF fs = <<>> THEN W
    ELSE AddFolders(RegistryAdd(W, g, URIParse(Head(fs))), g, Tail(fs))

\* Mutant: the removed folders are handled before the added ones.
FoldersListenerRemoveFirst(W, g, e) ==
    IF g = 0 THEN W
    ELSE AddFolders(RemoveFolders(W, g, e.removed), g, e.added)

\* One run of the listener on event e, with `projects` = g.
FoldersListener(W, g, e) ==
    IF g = 0 THEN W
    ELSE RemoveFolders(AddFolders(W, g, e.added), g, e.removed)

\* The event is fired at every registered listener in turn.
RECURSIVE FireListeners(_, _, _, _)
FireListeners(W, g, e, k) ==
    IF k = 0 THEN W ELSE FireListeners(FoldersListener(W, g, e), g, e, k - 1)

\* The workspace-folder change notification e arrives and is dispatched.
DidChange(e) ==
    /\ listeners > 0
    /\ lastBoth' = Range(e.added) \cap Range(e.removed)
    /\ UNCHANGED <<initVars, shutVars, initializedSeen, listeners, registrations,
                   serverVars, ctxPlugins, moduleVars, extVars, pureVars>>
    /\ LET W == FireListeners(World, projects, e, listeners) IN
       /\ W.next <= MaxHosts + 1
       /\ SetWorld(W)

DidChangeWorkspaceFolders == \E e \in Events : DidChange(e)
DidChangeWide == \E e \in WideEvents : DidChange(e)

(***************************************************************************)
(* onShutdown (lines 110-116)                                              *)
(***************************************************************************)
\* The map iterator's next(): the first entry inserted after the one visited
\* last, or none.
NextEntries(m, last) == SelectSeq(m, LAMBDA e : e.host > last)

NoIter == [reg |-> 0, cur |-> 0]

\* Mutant: the loop is left after its first entry.
ShutdownLoopBreak(g, last) ==
    LET rest == NextEntries(maps'[g], last) IN
    IF rest = <<>> \/ last # 0
    THEN /\ shutdownPc' = "returned"
         /\ shutIter' = NoIter
    ELSE /\ shutdownPc' = "awaiting"
         /\ shutIter' = [reg |-> g, cur |-> Head(rest).host]

\* The loop head: take the next entry and suspend on `await workspace[1]`, or
\* leave the loop and return.
ShutdownLoop(g, last) ==
    LET rest == NextEntries(maps'[g], last) IN
    IF rest = <<>>
    THEN /\ shutdownPc' = "returned"
         /\ shutIter' = NoIter
    ELSE /\ shutdownPc' = "awaiting"
         /\ shutIter' = [reg |-> g, cur |-> Head(rest).host]

\* A shutdown request arrives.
Shutdown ==
    /\ shutdownPc = "idle"
    /\ UNCHANGED worldVars
    /\ IF projects = 0
       THEN /\ shutdownPc' = "returned"
            /\ shutIter' = NoIter
            /\ liveAtShutdown' = {}
       ELSE /\ liveAtShutdown' = MapValues(maps[projects])
            /\ ShutdownLoop(projects, 0)
    /\ UNCHANGED <<ctxPlugins, moduleVars, serverVars, extVars, initVars, notifVars, pureVars>>

\* `await workspace[1]` settles: dispose() is called on the host; when it throws
\* the handler rejects, else the loop goes on.
ShutdownDispose ==
    /\ shutdownPc = "awaiting"
    /\ SetWorld(HostDispose(World, shutIter.cur))
    /\ \E throws \in BOOLEAN :
          IF throws
          THEN /\ shutdownPc' = "failed"
               /\ shutIter' = NoIter
          ELSE ShutdownLoop(shutIter.reg, shutIter.cur)
    /\ UNCHANGED <<ctxPlugins, moduleVars, serverVars, extVars, initVars, notifVars,
                   liveAtShutdown, pureVars>>

(***************************************************************************)
(* Documents and getLanguageService (lines 158-161).  getProject and the   *)
(* Project Host's engine and documents belong to createWorkspaces and are  *)
(* modelled from their documented contract.                                *)
(***************************************************************************)
DocUris == {"file:///a/x.ts", "file:///b/y.ts"}

\* The path segments of a document location and of a registry key.
SegsOf ==
    [u \in DocUris \cup {KeyA, KeyB} |->
        IF u = "file:///a/x.ts" THEN <<"a", "x.ts">>
        ELSE IF u = "file:///b/y.ts" THEN <<"b", "y.ts">>
        ELSE IF u = KeyA THEN <<"a">>
        ELSE <<"b">>]

IsPrefix(s, t) == Len(s) <= Len(t) /\ SubSeq(t, 1, Len(s)) = s

\* getProject(uri): the host whose root is the longest prefix of the document's
\* location, the most recently added one among equals; 0 when no root matches.
GetProject(m, uri) ==
    LET match == {i \in 1..Len(m) : IsPrefix(SegsOf[m[i].key], SegsOf[uri])}
        best == {i \in match : \A j \in match :
                     \/ Len(SegsOf[m[j].key]) < Len(SegsOf[m[i].key])
                     \/ (Len(SegsOf[m[j].key]) = Len(SegsOf[m[i].key]) /\ j <= i)}
    IN IF match = {} THEN 0 ELSE m[CHOOSE i \in best : TRUE].host

\* Lookups in host-indexed tables that hold an entry only once it is used.
EngineCount(E, h) == IF h \in DOMAIN E THEN E[h] ELSE 0
DocsOf(D, h) == IF h \in DOMAIN D THEN D[h] ELSE <<>>

NoHandle == [host |-> 0, nth |-> 0]
NoRequest == [pc |-> "idle", uri |-> "", reg |-> 0, host |-> 0, handle |-> NoHandle,
              raced |-> {}, fresh |-> FALSE]

\* The root that owns a document, and the hosts registered for a root.
OwnerKey(uri) == IF SegsOf[uri][1] = "a" THEN KeyA ELSE KeyB
LiveHostsOf(k) ==
    UNION {{maps[g][i].host : i \in {j \in 1..Len(maps[g]) : maps[g][j].key = k}} :
               g \in DOMAIN maps}

\* Project Host getLanguageService(): constructs the engine on the first
\* call and keeps it; the table of constructions after the call.
GetAnalysisEngine(E, h) == IF EngineCount(E, h) > 0 THEN E ELSE (h :> 1) @@ E

\* Whether a plugin holds getLanguageService: it is the argument of the
\* onInitialized hooks (line 155), which run right after the language
\* features are registered.
HandleGiven ==
    /\ featLegend # Undefined
    /\ \E i \in 1..Len(ctxPlugins) : ctxPlugins[i].onInitialized

\* `projects!` as the call of getLanguageService reads it (line 159).
RegistryOfCall(g) == g

\* A plugin calls getLanguageService(uri): projects!.getProject(uri) is called
\* and the function suspends on its result (line 159).
GetLanguageServiceCall(r, uri) ==
    /\ HandleGiven
    /\ requests[r].pc = "idle"
    /\ \A q \in 1..(r - 1) : requests[q].pc # "idle"
    /\ LET g == RegistryOfCall(projects) IN
       requests' = [requests EXCEPT ![r] =
           [pc |-> "awaiting", uri |-> uri, reg |-> g,
            host |-> GetProject(maps[g], uri), handle |-> NoHandle,
            raced |-> {q \in 1..MaxRequests : requests[q].pc = "awaiting"},
            fresh |-> \A h \in LiveHostsOf(OwnerKey(uri)) : EngineCount(hostEngines, h) = 0]]
    /\ UNCHANGED <<ctxPlugins, moduleVars, serverVars, worldVars, hostEngines, docVars, cancelVars,
                   initVars,
                   notifVars, shutVars, pureVars>>

\* The await of line 159 settles: project?.getLanguageService() (line 160).
GetLanguageServiceResume(r) ==
    /\ requests[r].pc = "awaiting"
    /\ LET h == requests[r].host
           E == IF h = 0 THEN hostEngines ELSE GetAnalysisEngine(hostEngines, h)
       IN /\ hostEngines' = E
          /\ requests' = [requests EXCEPT ![r].pc = "done",
                 ![r].handle = IF h = 0 THEN NoHandle
                               ELSE [host |-> h, nth |-> EngineCount(E, h)]]
    /\ UNCHANGED <<ctxPlugins, moduleVars, serverVars, worldVars, docVars, cancelVars,
                   initVars, notifVars, shutVars, pureVars>>

\* textDocument/didOpen for uri: the document is opened in the host that owns
\* it; a document no root owns stays without a host.
OpenDocument(uri) ==
    /\ projects # 0
    /\ LET h == GetProject(maps[projects], uri) IN
       /\ h # 0
       /\ uri \notin DOMAIN DocsOf(hostDocs, h)
       /\ hostCalls[h] = 0
       /\ hostDocs' = (h :> ((uri :> [version |-> 1, text |-> "v1"]) @@ DocsOf(hostDocs, h)))
                           @@ hostDocs
    /\ UNCHANGED <<ctxPlugins, moduleVars, serverVars, maps, hostCalls, hostReleased, nextHost,
                   extVars, initVars, notifVars, shutVars, pureVars>>

\* The texts document updates carry.
Texts == {"p", "q"}

\* updateDocument that applies every update, whatever its version.
UpdateDocumentAny(docs, uri, version, text) ==
    [docs |-> [docs EXCEPT ![uri] = [version |-> version, text |-> text]], error |-> FALSE]

\* Project Host updateDocument(uri, version, text) on the host's open
\* documents: an update whose version is not strictly greater than the last
\* seen version is rejected with a reported error and discarded.
UpdateDocumentIn(docs, uri, version, text) ==
    IF version > docs[uri].version
    THEN [docs |-> [docs EXCEPT ![uri] = [version |-> version, text |-> text]],
          error |-> FALSE]
    ELSE [docs |-> docs, error |-> TRUE]

\* textDocument/didChange for uri, delivered to the host that owns the open
\* document.
UpdateDocument(uri, version, text) ==
    /\ projects # 0
    /\ Len(docLog) < MaxUpdates
    /\ LET h == GetProject(maps[projects], uri) IN
       /\ h # 0
       /\ uri \in DOMAIN DocsOf(hostDocs, h)
       /\ hostCalls[h] = 0
       /\ LET r == UpdateDocumentIn(hostDocs[h], uri, version, text) IN
          /\ hostDocs' = [hostDocs EXCEPT ![h] = r.docs]
          /\ docErrors' = IF r.error THEN docErrors + 1 ELSE docErrors
    /\ docLog' = Append(docLog, [uri |-> uri, version |-> version, text |-> text])
    /\ UNCHANGED <<ctxPlugins, moduleVars, serverVars, maps, hostCalls, hostReleased, nextHost,
                   hostEngines, requests, cancelVars, initVars, notifVars, shutVars,
                   pureVars>>

\* Request ids of the transport; a client may use an id again once the
\* request that had it has completed.
RequestIds == {1, 2}

\* The two cancellation sources a token is wired to.
CancelSources == {"transport", "pipe"}

\* isCancelled(token): a read of the token's flag.
IsCancelled(tok) == tok.cancelled

\* A cancel that sets the flag whether or not the token is still attached.
CancelTokenAlways(tok, src) ==
    [tok |-> [tok EXCEPT !.cancelled = TRUE, !.source = src], error |-> FALSE]

\* A cancel for a token arriving from one of its sources: it sets the flag of
\* a token that is still attached; a detached token ignores it, without error.
CancelTokenIn(tok, src) ==
    IF tok.attached
    THEN [tok |-> [tok EXCEPT !.cancelled = TRUE, !.source = src], error |-> FALSE]
    ELSE [tok |-> tok, error |-> FALSE]

\* The token of a request that completes: detached from both sources, and
\* from then on reporting not-cancelled.
DetachToken(tok) == [tok EXCEPT !.attached = FALSE, !.cancelled = FALSE]

\* A tooling request arrives at a handler registered by languageFeatures
\* (lines 145-152), which creates the request's token with cancelTokenHost.
StartRequest(rid) ==
    /\ featLegend # Undefined
    /\ Len(tokens) < MaxTokens
    /\ \A t \in DOMAIN tokens : tokens[t].attached => tokens[t].request # rid
    /\ tokens' = Append(tokens, [request |-> rid, attached |-> TRUE, cancelled |-> FALSE,
                                 source |-> "none"])
    /\ UNCHANGED <<ctxPlugins, moduleVars, serverVars, worldVars, hostEngines, requests,
                   docVars, cancelLog, cancelErrors, initVars, notifVars, shutVars, pureVars>>

\* A cancel for token t arrives from the transport or from the side channel.
CancelToken(t, src) ==
    /\ t \in DOMAIN tokens
    /\ Len(cancelLog) < MaxCancels
    /\ LET r == CancelTokenIn(tokens[t], src) IN
       /\ tokens' = [tokens EXCEPT ![t] = r.tok]
       /\ cancelErrors' = IF r.error THEN cancelErrors + 1 ELSE cancelErrors
    /\ cancelLog' = Append(cancelLog, [token |-> t, late |-> ~tokens[t].attached])
    /\ UNCHANGED <<ctxPlugins, moduleVars, serverVars, worldVars, hostEngines, requests,
                   docVars, initVars, notifVars, shutVars, pureVars>>

\* The request of token t completes (with a result, or aborted by a cancel).
CompleteRequest(t) ==
    /\ t \in DOMAIN tokens
    /\ tokens[t].attached
    /\ tokens' = [tokens EXCEPT ![t] = DetachToken(tokens[t])]
    /\ UNCHANGED <<ctxPlugins, moduleVars, serverVars, worldVars, hostEngines, requests,
                   docVars, cancelLog, cancelErrors, initVars, notifVars, shutVars, pureVars>>

(***************************************************************************)
(* The lifecycle specification                                             *)
(***************************************************************************)
InitSession ==
    /\ ctxPlugins \in MainPlugins
    /\ initParams = Undefined
    /\ options = Undefined
    /\ roots = <<>>
    /\ fsHost = FALSE
    /\ projects = 0
    /\ configurationHost = FALSE
    /\ plugins = Undefined
    /\ standardLegend = standardSemanticTokensLegend
    /\ maps = <<>>
    /\ hostCalls = <<>>
    /\ hostReleased = <<>>
    /\ nextHost = 1
    /\ hostDocs = <<>>
    /\ hostEngines = <<>>
    /\ requests = [i \in 1..MaxRequests |-> NoRequest]
    /\ docLog = <<>>
    /\ docErrors = 0
    /\ tokens = <<>>
    /\ cancelLog = <<>>
    /\ cancelErrors = 0
    /\ initPc = "idle"
    /\ initCount = 0
    /\ initReplies = <<>>
    /\ capLegend = Undefined
    /\ featLegend = Undefined
    /\ hookLog = <<>>
    /\ seeded = {}
    /\ initAdds = <<>>
    /\ initializedSeen = FALSE
    /\ listeners = 0
    /\ registrations = <<>>
    /\ lastBoth = {}
    /\ shutdownPc = "idle"
    /\ shutIter = NoIter
    /\ liveAtShutdown = {}

Init ==
    /\ InitSession
    /\ pureIn = Undefined
    /\ pureOut = Undefined

Next ==
    \/ Initialize
    \/ InitializeL10n
    \/ InitializeTsLocalized
    \/ InitializeImport1
    \/ InitializeImport2
    \/ InitializeReturn
    \/ Initialized
    \/ DidChangeWorkspaceFolders
    \/ Shutdown
    \/ ShutdownDispose

Spec == Init /\ [][Next]_vars

(***************************************************************************)
(* The root-selection specification: handshakes over every combination of  *)
(* the sources of roots.                                                   *)
(***************************************************************************)
InitializeRoots == InitializeFrom(RootParams)

NextRoots ==
    \/ InitializeRoots
    \/ InitializeImport1
    \/ InitializeImport2
    \/ InitializeReturn

SpecRoots == Init /\ [][NextRoots]_vars

(***************************************************************************)
(* The folder specification: one kind of handshake, notifications with     *)
(* lists of up to two folders.                                             *)
(***************************************************************************)
InitializeBase == InitializeFrom({BaseParams})

NextFolders ==
    \/ InitializeBase
    \/ InitializeImport1
    \/ InitializeImport2
    \/ InitializeReturn
    \/ Initialized
    \/ DidChangeWide

SpecFolders == Init /\ [][NextFolders]_vars

(***************************************************************************)
(* The request specification: handshakes with one or two workspace         *)
(* folders, folder notifications and concurrent getLanguageService calls.  *)
(***************************************************************************)
RequestParams ==
    {BaseParams,
     [BaseParams EXCEPT !.workspaceFolders = Folders(<<"file:///b", "file:///a">>)]}

InitializeRequests == InitializeFrom(RequestParams)

NextRequests ==
    \/ InitializeRequests
    \/ InitializeImport1
    \/ InitializeImport2
    \/ InitializeReturn
    \/ Initialized
    \/ DidChangeWorkspaceFolders
    \/ \E r \in 1..MaxRequests, uri \in DocUris : GetLanguageServiceCall(r, uri)
    \/ \E r \in 1..MaxRequests : GetLanguageServiceResume(r)

SpecRequests == Init /\ [][NextRequests]_vars

(***************************************************************************)
(* The document specification: the same handshakes and notifications,      *)
(* opened documents and one getLanguageService call.                       *)
(***************************************************************************)
NextDocuments ==
    \/ InitializeRequests
    \/ InitializeImport1
    \/ InitializeImport2
    \/ InitializeReturn
    \/ Initialized
    \/ DidChangeWorkspaceFolders
    \/ \E uri \in DocUris : OpenDocument(uri)
    \/ \E uri \in DocUris : GetLanguageServiceCall(1, uri)
    \/ GetLanguageServiceResume(1)

SpecDocuments == Init /\ [][NextDocuments]_vars

(***************************************************************************)
(* The version specification: one kind of handshake, opened documents and  *)
(* document updates with every version and text.                           *)
(***************************************************************************)
NextVersions ==
    \/ InitializeBase
    \/ InitializeImport1
    \/ InitializeImport2
    \/ InitializeReturn
    \/ \E uri \in DocUris : OpenDocument(uri)
    \/ \E uri \in DocUris, version \in 1..MaxVersion, text \in Texts :
           UpdateDocument(uri, version, text)

SpecVersions == Init /\ [][NextVersions]_vars

(***************************************************************************)
(* The cancellation specification: one kind of handshake, tooling requests *)
(* with their tokens, cancels from both sources and completions.           *)
(***************************************************************************)
NextCancel ==
    \/ InitializeBase
    \/ InitializeImport1
    \/ InitializeImport2
    \/ InitializeReturn
    \/ \E rid \in RequestIds : StartRequest(rid)
    \/ \E t \in 1..MaxTokens, src \in CancelSources : CancelToken(t, src)
    \/ \E t \in 1..MaxTokens : CompleteRequest(t)

SpecCancel == Init /\ [][NextCancel]_vars

(***************************************************************************)
(* Specifications of the pure helpers: Init draws the input, the action    *)
(* applies the helper once.                                                *)
(***************************************************************************)
SessionFrame ==
    UNCHANGED <<ctxPlugins, serverVars, worldVars, extVars, initVars, notifVars, shutVars>>

ExtraTypes == {"foo", "class", "bar"}
ExtraModifiers == {"local", "static"}
LegendInputs ==
    {NoLegend} \cup {SomeLegend(t, m) : t \in SeqsUpTo(ExtraTypes, MaxExtra),
                                        m \in SeqsUpTo(ExtraModifiers, MaxExtra)}

InitLegend ==
    /\ InitSession
    /\ pureIn \in {[BaseOptions EXCEPT !.semanticTokensLegend = l] : l \in LegendInputs}
    /\ pureOut = Undefined

ComputeLegend ==
    /\ pureOut = Undefined
    /\ pureOut' = getSemanticTokensLegend(pureIn)
    /\ standardLegend' = LegendSideEffect(standardLegend, pureIn)
    /\ UNCHANGED pureIn
    /\ SessionFrame

SpecLegend == InitLegend /\ [][ComputeLegend]_vars

Extensions == {"vue", "ts"}
PluginInputs ==
    {Plugin(fw, TRUE, TRUE) : fw \in {NoExts} \cup {Exts(es) : es \in SeqsUpTo(Extensions, MaxExtra)}}
WatcherInputs ==
    [dynReg : BOOLEAN, syntactic : BOOLEAN, disableFileWatcher : BOOLEAN,
     plugins : SeqsUpTo(PluginInputs, MaxPlugins)]

InitWatcher ==
    /\ InitSession
    /\ pureIn \in WatcherInputs
    /\ pureOut = Undefined

ComputeWatcher ==
    /\ pureOut = Undefined
    /\ pureOut' = [sent |-> WatcherRegistration(
                       [BaseParams EXCEPT !.dynReg = pureIn.dynReg],
                       [BaseOptions EXCEPT !.syntactic = pureIn.syntactic,
                                           !.disableFileWatcher = pureIn.disableFileWatcher],
                       pureIn.plugins)]
    /\ UNCHANGED <<pureIn, moduleVars>>
    /\ SessionFrame

SpecWatcher == InitWatcher /\ [][ComputeWatcher]_vars

(***************************************************************************)
(* The transform specification: batch transforms (asLocations,             *)
(* asCompletionList, ...) of a raw list over a fixed set of mappings.       *)
(***************************************************************************)
Rng(a, b) == [start |-> a, end |-> b]

\* The mappings of one generated document, in generated order: ranges for the
\* same capability do not overlap; offsets 7..9 have no mapping.
Mappings ==
    <<[generatedRange |-> Rng(0, 2), sourceRange |-> Rng(10, 12),
       caps |-> {"definition", "hover"}],
      [generatedRange |-> Rng(2, 5), sourceRange |-> Rng(20, 23),
       caps |-> {"definition", "hover"}],
      [generatedRange |-> Rng(5, 7), sourceRange |-> Rng(30, 32), caps |-> {"hover"}]>>

Capabilities == {"definition", "hover"}

\* Result kinds of the batch forms; a list of locations supports splitting.
Kinds == {"locations", "completionList"}
SupportsSplitting(kind) == kind = "locations"

\* Generated-space ranges of raw items: a whole mapping, part of a mapping, a
\* range over two mappings, a range mapped for hover only, an unmapped range.
RawRanges == {Rng(0, 2), Rng(0, 1), Rng(2, 5), Rng(1, 4), Rng(5, 7), Rng(7, 9)}

RawOf(rs) == [i \in 1..Len(rs) |-> [range |-> rs[i], label |-> i]]

Overlap(g, r) ==
    Rng(IF g.start > r.start THEN g.start ELSE r.start, IF g.end < r.end THEN g.end ELSE r.end)
Width(r) == IF r.end > r.start THEN r.end - r.start ELSE 0

\* Step 1: the mappings that cover (part of) the item's range for the
\* capability, in generated order.
Covering(item, cap) ==
    SelectSeq(Mappings, LAMBDA m : cap \in m.caps /\ Width(Overlap(m.generatedRange, item.range)) > 0)

\* Step 4: the part of the item inside mapping m, in source coordinates; the
\* other fields pass through.
ToSource(item, m) ==
    LET part == Overlap(m.generatedRange, item.range) IN
    [item EXCEPT !.range = Rng(m.sourceRange.start + (part.start - m.generatedRange.start),
                               m.sourceRange.start + (part.end - m.generatedRange.start))]

\* The mapping with the largest overlap, the first one among equals.
LargestOverlap(item, cov) ==
    LET w(k) == Width(Overlap(cov[k].generatedRange, item.range))
        best == CHOOSE k \in 1..Len(cov) :
                    \A j \in 1..Len(cov) : w(j) < w(k) \/ (w(j) = w(k) /\ k <= j)
    IN cov[best]

\* A list transform that never splits an item.
TransformItemMerged(item, cap, kind) ==
    LET cov == Covering(item, cap) IN
    IF cov = <<>> THEN <<>> ELSE <<ToSource(item, LargestOverlap(item, cov))>>

\* Steps 2 and 3 for one item of a list: dropped when no mapping covers it,
\* split over its covering mappings when the kind supports splitting, else
\* one partial item from the mapping with the largest overlap.
TransformItem(item, cap, kind) ==
    LET cov == Covering(item, cap) IN
    IF cov = <<>> THEN <<>>
    ELSE IF SupportsSplitting(kind) THEN [k \in 1..Len(cov) |-> ToSource(item, cov[k])]
    ELSE <<ToSource(item, LargestOverlap(item, cov))>>

\* Step 5: the batch transform keeps the order of the raw list.
RECURSIVE TransformList(_, _, _)
TransformList(raw, cap, kind) ==
    IF raw = <<>> THEN <<>>
    ELSE TransformItem(Head(raw), cap, kind) \o TransformList(Tail(raw), cap, kind)

TransformInputs ==
    [raw : {RawOf(rs) : rs \in SeqsUpTo(RawRanges, MaxItems)}, cap : Capabilities, kind : Kinds]

InitTransform ==
    /\ InitSession
    /\ pureIn \in TransformInputs
    /\ pureOut = Undefined

ComputeTransform ==
    /\ pureOut = Undefined
    /\ pureOut' = [items |-> TransformList(pureIn.raw, pureIn.cap, pureIn.kind),
                   error |-> FALSE]
    /\ UNCHANGED <<pureIn, moduleVars>>
    /\ SessionFrame

SpecTransform == InitTransform /\ [][ComputeTransform]_vars

(***************************************************************************)
(* Properties                                                              *)
(***************************************************************************)
Hosts == DOMAIN hostCalls
KeyOf(r) == URIToString(URIParse(r))
LastReply == initReplies[Len(initReplies)]
HandshakeFailed == initPc = "idle" /\ initReplies # <<>> /\ LastReply = "error"
HandshakeDone == initPc = "idle" /\ initReplies # <<>> /\ LastReply = "result"

\* C1: when the shutdown handler returns (the request is acknowledged), every
\* host that was live in the registry when the request arrived has had
\* dispose() called.
C1_ShutdownDisposesLiveHosts ==
    shutdownPc = "returned" => \A h \in liveAtShutdown : hostCalls[h] >= 1

\* C1 witness: a shutdown over two live hosts has returned, both disposed.
C1_Witness ==
    /\ shutdownPc = "returned"
    /\ Cardinality(liveAtShutdown) >= 2
    /\ \A h \in liveAtShutdown : hostCalls[h] >= 1

\* C2: a dispose() failure is contained: after a completed handshake the
\* shutdown handler never ends in an error, and when it ends every host live at
\* its start has been disposed.
C2_DisposeFailureContained ==
    (HandshakeDone /\ shutdownPc \in {"returned", "failed"}) =>
        /\ shutdownPc = "returned"
        /\ \A h \in liveAtShutdown : hostCalls[h] >= 1

\* C3: after a completed handshake every host is disposed exactly once while
\* the shutdown loop runs interleaved with folder notifications: none receives
\* a second dispose(), and when the loop is done none that was live at its
\* start was skipped.
C3_DisposedExactlyOnce ==
    HandshakeDone =>
        /\ shutdownPc \in {"idle", "awaiting"} => \A h \in Hosts : hostCalls[h] <= 1
        /\ shutdownPc = "returned" => \A h \in liveAtShutdown : hostCalls[h] >= 1

\* C4: an initialize request that is not the first of the session is answered
\* with an error and leaves the session state, the registry and the hosts as
\* they were; no second registry is created.
C4_SecondInitializeRejected ==
    [][(initCount >= 1 /\ initCount' = initCount + 1) =>
           /\ UNCHANGED <<serverVars, worldVars>>
           /\ initPc' = "idle"
           /\ initReplies' = Append(initReplies, "error")]_vars

\* C5 as claimed: within a handshake no onInitialized hook (the one given the
\* language-service lookup) fires before an onInitialize hook (the one given
\* the initialize result).
C5_InitializeHookFirst ==
    \A i, j \in 1..Len(hookLog) :
        (hookLog[i].hook = "onInitialized" /\ hookLog[j].hook = "onInitialize") => j < i

\* C5 amended: within a handshake the onInitialized hooks fire first, in plugin
\* order and after this handshake's registry is constructed; the onInitialize
\* hooks fire after them, in plugin order, each hook at most once per plugin.
C5_InitializedHookFirst ==
    /\ \A i, j \in 1..Len(hookLog) :
           (hookLog[i].hook = "onInitialized" /\ hookLog[j].hook = "onInitialize") => i < j
    /\ \A i, j \in 1..Len(hookLog) :
           (i < j /\ hookLog[i].hook = hookLog[j].hook) => hookLog[i].plugin < hookLog[j].plugin
    /\ \A i \in 1..Len(hookLog) : hookLog[i].n = initCount
    /\ hookLog # <<>> => (initCount \in DOMAIN maps /\ projects = initCount)

\* C5 witness: a handshake has returned its result after a plugin's
\* onInitialized hook and then its onInitialize hook fired.
C5_Witness ==
    /\ HandshakeDone
    /\ \E i, j \in 1..Len(hookLog) :
           /\ i < j
           /\ hookLog[i].plugin = hookLog[j].plugin
           /\ hookLog[i].hook = "onInitialized"
           /\ hookLog[j].hook = "onInitialize"

\* C6: a handshake that ended in an error response leaves no registry of its
\* own behind (constructed or assigned to `projects`) and fired no hook.
C6_FailedHandshakeLeavesNothing ==
    HandshakeFailed =>
        /\ initCount \notin DOMAIN maps
        /\ projects # initCount
        /\ hookLog = <<>>

C8_LegendIsConcatenation ==
    pureOut # Undefined =>
        LET std == standardSemanticTokensLegend
            extra == pureIn.semanticTokensLegend
            nt == Len(std.tokenTypes)
            nm == Len(std.tokenModifiers)
        IN /\ Len(pureOut.tokenTypes) = nt + Len(extra.tokenTypes)
           /\ Len(pureOut.tokenModifiers) = nm + Len(extra.tokenModifiers)
           /\ \A i \in 1..nt : pureOut.tokenTypes[i] = std.tokenTypes[i]
           /\ \A i \in 1..nm : pureOut.tokenModifiers[i] = std.tokenModifiers[i]
           /\ \A j \in 1..Len(extra.tokenTypes) :
                  pureOut.tokenTypes[nt + j] = extra.tokenTypes[j]
           /\ \A j \in 1..Len(extra.tokenModifiers) :
                  pureOut.tokenModifiers[nm + j] = extra.tokenModifiers[j]
           /\ nt = 23 /\ nm = 10
           /\ std.tokenTypes[2] = "class" /\ std.tokenModifiers[4] = "static"

\* C8 witness: the legend computed for the additional token types ["foo"] ends
\* with foo at position 24.
C8_Witness ==
    /\ pureOut # Undefined
    /\ pureIn.semanticTokensLegend.tokenTypes = <<"foo">>
    /\ Len(pureOut.tokenTypes) = 24
    /\ pureOut.tokenTypes[24] = "foo"

\* The alternatives of a registered glob: the pieces between the separators.
Alternatives(glob) == [i \in 1..((Len(glob) - 1) \div 2) |-> glob[2 * i]]
Contribution(pl) == IF pl.fileWatcher.isNull THEN <<>> ELSE pl.fileWatcher.exts
RECURSIVE Offset(_, _)
Offset(ps, k) == IF k = 0 THEN 0 ELSE Offset(ps, k - 1) + Len(Contribution(ps[k]))
WellFormedGlob(glob) ==
    /\ Len(glob) >= 3
    /\ glob[1] = "**/*.{"
    /\ glob[Len(glob)] = "}"
    /\ \A i \in 2..(Len(glob) - 1) : (i % 2 = 1) => glob[i] = ","

\* C9 as claimed: the registered glob holds the union of the plugins'
\* extensions, each exactly once.
C9_GlobDeduplicated ==
    (pureOut # Undefined /\ pureOut.sent # <<>>) =>
        LET alts == Alternatives(pureOut.sent[1])
        IN /\ Range(alts) = UNION {Range(Contribution(pureIn.plugins[k])) :
                                       k \in 1..Len(pureIn.plugins)}
           /\ \A i, j \in 1..Len(alts) : alts[i] = alts[j] => i = j

\* C9 amended: the registered glob lists every plugin's extensions in plugin
\* order, one alternative per contributed extension, repeats included.
C9_GlobIsConcatenation ==
    (pureOut # Undefined /\ pureOut.sent # <<>>) =>
        LET glob == pureOut.sent[1]
            alts == Alternatives(glob)
            ps == pureIn.plugins
        IN /\ Len(pureOut.sent) = 1
           /\ WellFormedGlob(glob)
           /\ Len(alts) = Offset(ps, Len(ps))
           /\ \A k \in 1..Len(ps) : \A j \in 1..Len(Contribution(ps[k])) :
                  alts[Offset(ps, k - 1) + j] = Contribution(ps[k])[j]

\* C9 witness: a glob was registered for two plugins that both contribute vue,
\* and vue is listed twice.
C9_Witness ==
    /\ pureOut # Undefined
    /\ Len(pureIn.plugins) = 2
    /\ Contribution(pureIn.plugins[1]) = <<"vue">>
    /\ Contribution(pureIn.plugins[2]) = <<"vue">>
    /\ pureOut.sent = << <<"**/*.{", "vue", ",", "vue", "}">> >>

\* C10: a notification that adds R and removes R leaves the registry without
\* an entry for R and R's host released exactly once; adding a root that has a
\* host, and removing one that has none, change nothing.
C10_AddThenRemove ==
    [][\A r \in Roots :
           /\ (projects # 0 /\ DidChange([added |-> <<r>>, removed |-> <<r>>])) =>
                  LET h == IF MapHas(maps[projects], KeyOf(r))
                           THEN MapGet(maps[projects], KeyOf(r)) ELSE nextHost
                  IN /\ ~MapHas(maps'[projects], KeyOf(r))
                     /\ h \in DOMAIN hostReleased'
                     /\ hostReleased'[h] = 1
           /\ (projects # 0 /\ MapHas(maps[projects], KeyOf(r))
                   /\ DidChange([added |-> <<r>>, removed |-> <<>>])) =>
                  UNCHANGED worldVars
           /\ (projects # 0 /\ ~MapHas(maps[projects], KeyOf(r))
                   /\ DidChange([added |-> <<>>, removed |-> <<r>>])) =>
                  UNCHANGED worldVars]_vars

\* C10 witness: the last notification added and removed the same root; the
\* root has no entry and a host has been released once.
C10_Witness ==
    /\ projects # 0
    /\ shutdownPc = "idle"
    /\ \E r \in lastBoth : ~MapHas(maps[projects], KeyOf(r))
    /\ \E h \in Hosts : hostReleased[h] = 1 /\ h \notin MapValues(maps[projects])

\* C18: once the shutdown request of a session with live hosts has been
\* acknowledged, the session holds no live host: every host of the registry
\* has been disposed, also after a folder notification that arrives later.
C18_NoLiveHostAfterShutdown ==
    (shutdownPc = "returned" /\ liveAtShutdown # {}) =>
        \A h \in MapValues(maps[projects]) : hostCalls[h] >= 1

SameList(s, t) == Len(s) = Len(t) /\ \A i \in 1..Len(s) : s[i] = t[i]

C20_WatcherOnlyWhenEnabled ==
    pureOut # Undefined =>
        LET ps == pureIn.plugins
            contributed == \E k \in 1..Len(ps) : Len(Contribution(ps[k])) > 0
        IN /\ Len(pureOut.sent) <= 1
           /\ pureOut.sent # <<>> =>
                  /\ ~pureIn.syntactic
                  /\ ~pureIn.disableFileWatcher
                  /\ pureIn.dynReg
                  /\ contributed
                  /\ Len(Alternatives(pureOut.sent[1])) >= 1

\* C20 witness: the three switches allow the registration, the plugins (one
\* without a fileWatcher list, one with an empty list) contribute no
\* extension, and nothing was registered.
C20_Witness ==
    /\ pureOut # Undefined
    /\ ~pureIn.syntactic /\ ~pureIn.disableFileWatcher /\ pureIn.dynReg
    /\ pureIn.plugins = <<Plugin(NoExts, TRUE, TRUE), Plugin(Exts(<<>>), TRUE, TRUE)>>
    /\ pureOut.sent = <<>>

\* The roots the claim names for the initialize request p, as registry keys.
ExpectedRootKeys(p) ==
    IF p.wsCap /\ ~p.workspaceFolders.isNull
    THEN [i \in 1..Len(p.workspaceFolders.uris) |-> "file://" \o PathOf[p.workspaceFolders.uris[i]]]
    ELSE IF p.rootUri # "" THEN <<"file://" \o PathOf[p.rootUri]>>
    ELSE IF p.rootPath # "" THEN <<"file://" \o p.rootPath>>
    ELSE <<>>

\* C16: once a hook of a handshake has fired, and when the handshake has
\* returned its result, the roots it selected are the client's workspace
\* folders (with workspace-folder support), else the rootUri, else the
\* rootPath, else none, and add() has been called for each of them, in order.
C16_InitialRootsByPriority ==
    ((hookLog # <<>> /\ initPc # "idle") \/ HandshakeDone) =>
        /\ [i \in 1..Len(roots) |-> URIToString(roots[i])] = ExpectedRootKeys(initParams)
        /\ initAdds = ExpectedRootKeys(initParams)

\* The same for the first handshake of a session only.
C16_FirstHandshake ==
    initCount = 1 => C16_InitialRootsByPriority

\* The calls the claim names for the notification e.
ExpectedCalls(e) ==
    [i \in 1..Len(e.added) |-> [op |-> "add", key |-> KeyOf(e.added[i])]]
        \o [i \in 1..Len(e.removed) |-> [op |-> "remove", key |-> KeyOf(e.removed[i])]]

\* C17: handling a notification calls add() for every added folder, in the
\* order of the list, and then remove() for every removed folder, in the order
\* of the list; afterwards a folder of both lists has no entry in the registry.
C17_AddsBeforeRemoves ==
    [][\A e \in WideEvents :
           (projects # 0 /\ DidChange(e)) =>
               /\ FireListeners(World, projects, e, listeners).log = ExpectedCalls(e)
               /\ \A r \in Range(e.added) \cap Range(e.removed) :
                      ~MapHas(maps'[projects], KeyOf(r))]_vars

\* C17 witness: the last notification listed both roots as added and as
\* removed; two hosts were created and released and the registry is empty.
C17_Witness ==
    /\ projects # 0
    /\ lastBoth = Roots
    /\ maps[projects] = <<>>
    /\ Cardinality({h \in Hosts : hostReleased[h] = 1}) >= 2

\* C11: two getLanguageService calls that were suspended at the same time, for
\* documents of the same root whose engine was not constructed when they were
\* made, receive the same handle, and one engine exists for that root.
C11_EngineConstructedOnce ==
    \A r1, r2 \in 1..MaxRequests :
        LET k == OwnerKey(requests[r2].uri) IN
        (/\ r1 \in requests[r2].raced
         /\ requests[r1].pc = "done" /\ requests[r2].pc = "done"
         /\ requests[r1].fresh /\ requests[r2].fresh
         /\ OwnerKey(requests[r1].uri) = k
         /\ requests[r1].host \in LiveHostsOf(k)
         /\ requests[r2].host \in LiveHostsOf(k))
        => /\ requests[r1].handle = requests[r2].handle
           /\ \A h \in LiveHostsOf(k) : EngineCount(hostEngines, h) <= 1
           /\ Cardinality({h \in LiveHostsOf(k) : EngineCount(hostEngines, h) > 0}) = 1

\* The same within the first handshake's registry.
C11_FirstRegistry ==
    initCount <= 1 => C11_EngineConstructedOnce

DocA == "file:///a/x.ts"

\* C12: with roots A and B registered and a document of A open, the document
\* resolves to A's host and not to B's, and a notification that removes B
\* leaves A's host registered, not disposed, with the same open documents and
\* the same engine.
C12_RemoveOtherRootLeavesHost ==
    [][(/\ projects # 0
        /\ MapHas(maps[projects], KeyA)
        /\ MapHas(maps[projects], KeyB)
        /\ DocA \in DOMAIN DocsOf(hostDocs, MapGet(maps[projects], KeyA))
        /\ DidChange([added |-> <<>>, removed |-> <<"file:///b">>]))
       => LET hA == MapGet(maps[projects], KeyA) IN
          /\ GetProject(maps[projects], DocA) = hA
          /\ GetProject(maps[projects], DocA) # MapGet(maps[projects], KeyB)
          /\ ~MapHas(maps'[projects], KeyB)
          /\ MapHas(maps'[projects], KeyA)
          /\ MapGet(maps'[projects], KeyA) = hA
          /\ GetProject(maps'[projects], DocA) = hA
          /\ DocsOf(hostDocs', hA) = DocsOf(hostDocs, hA)
          /\ EngineCount(hostEngines', hA) = EngineCount(hostEngines, hA)
          /\ hostCalls'[hA] = hostCalls[hA]
          /\ hostReleased'[hA] = hostReleased[hA]]_vars

\* C12 witness: B was removed and its host disposed; A's host is registered
\* and live, holds the open document and has constructed its engine.
C12_Witness ==
    /\ projects # 0
    /\ MapHas(maps[projects], KeyA)
    /\ ~MapHas(maps[projects], KeyB)
    /\ LET hA == MapGet(maps[projects], KeyA) IN
       /\ hostCalls[hA] = 0
       /\ DocA \in DOMAIN DocsOf(hostDocs, hA)
       /\ EngineCount(hostEngines, hA) = 1
       /\ \E h \in Hosts : h > hA /\ hostReleased[h] = 1

\* C13: a document update is applied only if its version is strictly greater
\* than the version recorded for the document: such an update replaces the
\* version and the text and reports nothing; any other update is rejected,
\* reports one error and leaves the document as it was (after versions 1, 3
\* the update 2 leaves version 3 and its text); the version recorded for an
\* open document never decreases.
C13_VersionsIncrease ==
    [][/\ \A h \in DOMAIN hostDocs : \A u \in DOMAIN hostDocs[h] :
              u \in DOMAIN DocsOf(hostDocs', h) =>
                  hostDocs'[h][u].version >= hostDocs[h][u].version
       /\ Len(docLog') = Len(docLog) + 1 =>
              LET e == docLog'[Len(docLog')]
                  h == GetProject(maps[projects], e.uri)
                  old == hostDocs[h][e.uri]
              IN IF e.version > old.version
                 THEN /\ hostDocs'[h][e.uri] = [version |-> e.version, text |-> e.text]
                      /\ docErrors' = docErrors
                 ELSE /\ hostDocs'[h][e.uri] = old
                      /\ docErrors' = docErrors + 1]_vars

\* C13 witness: a document opened at version 1 received version 3 with text p
\* and then version 2 with text q; one error was reported and the document is
\* at version 3 with text p.
C13_Witness ==
    /\ projects # 0
    /\ docLog = <<[uri |-> DocA, version |-> 3, text |-> "p"],
                  [uri |-> DocA, version |-> 2, text |-> "q"]>>
    /\ docErrors = 1
    /\ LET h == GetProject(maps[projects], DocA) IN
       /\ h # 0
       /\ DocA \in DOMAIN DocsOf(hostDocs, h)
       /\ hostDocs[h][DocA] = [version |-> 3, text |-> "p"]

CoveredItems == SelectSeq(pureIn.raw, LAMBDA it : Covering(it, pureIn.cap) # <<>>)

Pieces(it) ==
    LET n == Len(Covering(it, pureIn.cap)) IN
    IF n = 0 THEN 0 ELSE IF SupportsSplitting(pureIn.kind) THEN n ELSE 1

====
